---- MODULE Spec2Model ----
(***************************************************************************)
(* remotehttp: a dial hook for http.Transport that resolves the host of    *)
(* the address, tests every resolved IP against a table of local CIDR      *)
(* ranges and connects to the resolved IP literal (src/remotehttp.go).     *)
(*                                                                         *)
(* An IP is a sequence of 4 or 16 bytes (net.IP), a string is a TLA+       *)
(* string, an address is the sequence of its lexical tokens.               *)
(***************************************************************************)
EXTENDS Integers, Sequences, FiniteSets, TLC

\* Number of goroutines that call the transport's DialContext.
NumProcs == 2
\* Longest answer (number of IPs) the resolver returns.
MaxCands == 2
\* Longest answer of the resolver where calls overlap.
ConcCands == 1
\* Number of calls made where calls overlap.
MaxConcCalls == 2

Procs == 1..NumProcs

(***************************************************************************)
(* net.IP                                                                  *)
(***************************************************************************)
v4InV6Prefix == <<0, 0, 0, 0, 0, 0, 0, 0, 0, 0, 255, 255>>

\* net.IPv4(a, b, c, d): the 16-byte form of an IPv4 address.
IPv4(a, b, c, d) == v4InV6Prefix \o <<a, b, c, d>>

\* An IPv6 address from its eight 16-bit groups.
IPv6(g) == [i \in 1..16 |-> IF i % 2 = 1 THEN g[(i + 1) \div 2] \div 256
                                         ELSE g[i \div 2] % 256]

NoIP == <<>>

\* IP.To4: the 4-byte form of an IPv4 address, nil for anything else.
To4(ip) ==
    IF Len(ip) = 4 THEN ip
    ELSE IF Len(ip) = 16 /\ SubSeq(ip, 1, 12) = v4InV6Prefix THEN SubSeq(ip, 13, 16)
    ELSE NoIP

\* IP.To16: the 16-byte form, nil for a slice of any other length.
To16(ip) ==
    IF Len(ip) = 4 THEN IPv4(ip[1], ip[2], ip[3], ip[4])
    ELSE IF Len(ip) = 16 THEN ip
    ELSE NoIP

HexDigit == <<"0", "1", "2", "3", "4", "5", "6", "7",
              "8", "9", "a", "b", "c", "d", "e", "f">>

RECURSIVE Hex(_)
\* Lower-case hexadecimal without leading zeros (appendHex).
Hex(n) == IF n < 16 THEN HexDigit[n + 1]
          ELSE Hex(n \div 16) \o HexDigit[(n % 16) + 1]

Group(ip, i) == ip[2 * i - 1] * 256 + ip[2 * i]

\* Length of the run of zero groups that starts at group i.
RECURSIVE ZeroRun(_, _)
ZeroRun(ip, i) == IF i > 8 \/ Group(ip, i) # 0 THEN 0 ELSE 1 + ZeroRun(ip, i + 1)

\* First group of the longest run of zero groups, 0 when no run is longer
\* than one group ("::" never shortens a single zero group).
LongestZeroRun(ip) ==
    LET best == CHOOSE i \in 1..8 :
                   /\ \A j \in 1..8 : ZeroRun(ip, j) <= ZeroRun(ip, i)
                   /\ \A j \in 1..(i - 1) : ZeroRun(ip, j) < ZeroRun(ip, i)
    IN IF ZeroRun(ip, best) <= 1 THEN 0 ELSE best

RECURSIVE V6Text(_, _, _)
\* The groups from i on; e0 is the first group of the run "::" stands for.
V6Text(ip, i, e0) ==
    IF i > 8 THEN ""
    ELSE IF i = e0
         THEN LET e1 == i + ZeroRun(ip, i)
              IN "::" \o (IF e1 > 8 THEN ""
                          ELSE Hex(Group(ip, e1)) \o V6Text(ip, e1 + 1, e0))
         ELSE (IF i > 1 THEN ":" ELSE "")
              \o Hex(Group(ip, i)) \o V6Text(ip, i + 1, e0)

\* IP.String: dotted decimal for an IPv4 address (in either form), the
\* RFC 5952 text for an IPv6 address.
IPString(ip) ==
    IF Len(ip) = 0 THEN "<nil>"
    ELSE IF To4(ip) # NoIP
         THEN LET p == To4(ip)
              IN ToString(p[1]) \o "." \o ToString(p[2]) \o "."
                 \o ToString(p[3]) \o "." \o ToString(p[4])
         ELSE V6Text(ip, 1, LongestZeroRun(ip))

(***************************************************************************)
(* net.IPNet, net.ParseCIDR                                                *)
(***************************************************************************)
RECURSIVE BitAnd(_, _)
\* a & b on non-negative integers.
BitAnd(a, b) ==
    IF a = 0 \/ b = 0 THEN 0
    ELSE 2 * BitAnd(a \div 2, b \div 2) + (IF a % 2 = 1 /\ b % 2 = 1 THEN 1 ELSE 0)

\* 2^n for n in 0..8.
Pow2(n) == <<1, 2, 4, 8, 16, 32, 64, 128, 256>>[n + 1]

\* net.CIDRMask(ones, 8 * len): ones leading 1 bits.
CIDRMask(ones, len) ==
    [i \in 1..len |-> IF ones >= 8 * i THEN 255
                      ELSE IF ones <= 8 * (i - 1) THEN 0
                      ELSE 256 - Pow2(8 * i - ones)]

\* IP.Mask
Mask(ip, m) == [i \in 1..Len(ip) |-> BitAnd(ip[i], m[i])]

\* A CIDR literal of the source: its text, and the address bytes and prefix
\* length the text denotes.
Cidr(text, a, n) == [cidr |-> text, addr |-> a, ones |-> n]

\* net.ParseCIDR(entry): the block (network number and mask) of a literal.
\* Every literal of the source is well-formed, so err is nil.
ParseCIDR(entry) ==
    LET m == CIDRMask(entry.ones, Len(entry.addr))
    IN [IP |-> Mask(entry.addr, m), Mask |-> m]

\* strings.Contains(entry, ":"): the text of a literal holds a colon exactly
\* when it is written in IPv6 notation.
EntryHasColon(entry) == Len(entry.addr) = 16

\* (*IPNet).Contains
Contains(block, ip) ==
    LET x == IF To4(ip) # NoIP THEN To4(ip) ELSE ip
        nn == IF To4(block.IP) # NoIP THEN To4(block.IP) ELSE block.IP
        m == IF Len(block.Mask) = 16 /\ Len(nn) = 4
             THEN SubSeq(block.Mask, 13, 16) ELSE block.Mask
    IN /\ Len(nn) = Len(m)
       /\ Len(x) = Len(nn)
       /\ \A i \in 1..Len(x) : BitAnd(nn[i], m[i]) = BitAnd(x[i], m[i])

localIP4 == <<
    Cidr("10.0.0.0/8", <<10, 0, 0, 0>>, 8),
    Cidr("100.64.0.0/10", <<100, 64, 0, 0>>, 10),
    Cidr("127.0.0.0/8", <<127, 0, 0, 0>>, 8),
    Cidr("169.254.0.0/16", <<169, 254, 0, 0>>, 16),
    Cidr("172.16.0.0/12", <<172, 16, 0, 0>>, 12),
    Cidr("192.0.0.0/24", <<192, 0, 0, 0>>, 24),
    Cidr("192.0.2.0/24", <<192, 0, 2, 0>>, 24),
    Cidr("192.168.0.0/16", <<192, 168, 0, 0>>, 16),
    Cidr("192.18.0.0/15", <<192, 18, 0, 0>>, 15),
    Cidr("192.88.99.0/24", <<192, 88, 99, 0>>, 24),
    Cidr("198.51.100.0/24", <<198, 51, 100, 0>>, 24),
    Cidr("203.0.113.0/24", <<203, 0, 113, 0>>, 24),
    Cidr("224.0.0.0/4", <<224, 0, 0, 0>>, 4),
    Cidr("255.255.255.255/32", <<255, 255, 255, 255>>, 32) >>

localIP6 == <<
    Cidr("::/128", IPv6(<<0, 0, 0, 0, 0, 0, 0, 0>>), 128),
    Cidr("100::/64", IPv6(<<\h100, 0, 0, 0, 0, 0, 0, 0>>), 64),
    Cidr("2001:2::/48", IPv6(<<\h2001, 2, 0, 0, 0, 0, 0, 0>>), 48),
    Cidr("2001::/23", IPv6(<<\h2001, 0, 0, 0, 0, 0, 0, 0>>), 23),
    Cidr("2001::/32", IPv6(<<\h2001, 0, 0, 0, 0, 0, 0, 0>>), 32),
    Cidr("2001:db8::/32", IPv6(<<\h2001, \hdb8, 0, 0, 0, 0, 0, 0>>), 32),
    Cidr("::1/128", IPv6(<<0, 0, 0, 0, 0, 0, 0, 1>>), 128),
    Cidr("fc00::/7", IPv6(<<\hfc00, 0, 0, 0, 0, 0, 0, 0>>), 7),
    Cidr("fe80::/10", IPv6(<<\hfe80, 0, 0, 0, 0, 0, 0, 0>>), 10),
    Cidr("ff00::/8", IPv6(<<\hff00, 0, 0, 0, 0, 0, 0, 0>>), 8) >>

\* tmp := localIP4; tmp = append(tmp, localIP6...)
tmp == localIP4 \o localIP6

\* make(map[string]*net.IPNet)
EmptyMap == [k \in {} |-> 0]

\* m[key] = block
MapPut(m, key, block) ==
    [k \in DOMAIN m \cup {key} |-> IF k = key THEN block ELSE m[k]]

(***************************************************************************)
(* Addresses and the resolver                                              *)
(***************************************************************************)
RECURSIVE Concat(_)
\* The string a sequence of tokens spells.
Concat(toks) == IF toks = <<>> THEN "" ELSE Head(toks) \o Concat(Tail(toks))

\* Position of the last / first occurrence of a token, 0 when there is none.
LastIndex(toks, t) ==
    IF \E j \in 1..Len(toks) : toks[j] = t
    THEN CHOOSE j \in 1..Len(toks) :
            toks[j] = t /\ \A h \in (j + 1)..Len(toks) : toks[h] # t
    ELSE 0

FirstIndex(toks, t) ==
    IF \E j \in 1..Len(toks) : toks[j] = t
    THEN CHOOSE j \in 1..Len(toks) : toks[j] = t /\ \A h \in 1..(j - 1) : toks[h] # t
    ELSE 0

AddrError(toks, why) ==
    [host |-> "", port |-> "", err |-> "address " \o Concat(toks) \o ": " \o why]

\* net.SplitHostPort on the tokens of an address: "[", "]", ":" and the
\* texts between them.
SplitHostPort(toks) ==
    LET i == LastIndex(toks, ":")
        end == FirstIndex(toks, "]")
    IN IF i = 0 THEN AddrError(toks, "missing port in address")
       ELSE IF toks[1] = "["
            THEN IF end = 0 THEN AddrError(toks, "missing ']' in address")
                 ELSE IF end = Len(toks) THEN AddrError(toks, "missing port in address")
                 ELSE IF end + 1 # i
                      THEN AddrError(toks, IF toks[end + 1] = ":"
                                           THEN "too many colons in address"
                                           ELSE "missing port in address")
                 ELSE [host |-> Concat(SubSeq(toks, 2, end - 1)),
                       port |-> Concat(SubSeq(toks, i + 1, Len(toks))),
                       err |-> ""]
            ELSE IF \E j \in 1..(i - 1) : toks[j] = ":"
                 THEN AddrError(toks, "too many colons in address")
            ELSE IF \E j \in 1..Len(toks) : toks[j] \in {"[", "]"}
                 THEN AddrError(toks, "unexpected '[' or ']' in address")
            ELSE [host |-> Concat(SubSeq(toks, 1, i - 1)),
                  port |-> Concat(SubSeq(toks, i + 1, Len(toks))),
                  err |-> ""]

\* Addresses of the model.
Loopback4 == IPv4(127, 0, 0, 1)
Loopback4b == IPv4(127, 0, 127, 127)
Metadata4 == IPv4(169, 254, 169, 254)
Private4 == <<10, 1, 2, 3>>
Public4 == <<8, 8, 8, 8>>
Public4b == IPv4(93, 184, 216, 34)
Loopback6 == IPv6(<<0, 0, 0, 0, 0, 0, 0, 1>>)
LinkLocal6 == IPv6(<<\hfe80, 0, 0, 0, 0, 0, 0, 1>>)
Public6 == IPv6(<<\h2606, \h2800, \h220, 1, \h248, \h1893, \h25c8, \h1946>>)

KnownIPs == {Loopback4, Loopback4b, Metadata4, Private4, Public4, Public4b,
             Loopback6, LinkLocal6, Public6}

\* net.ParseIP on a host: the 16-byte address the text denotes, nil for a name.
ParseIP(host) ==
    IF \E ip \in KnownIPs : IPString(ip) = host
    THEN To16(CHOOSE ip \in KnownIPs : IPString(ip) = host)
    ELSE NoIP

\* Sequences over S of length at most n.
SeqsUpTo(S, n) == UNION {[1..m -> S] : m \in 0..n}

\* What net.LookupIP(host) may return: the address itself for an IP
\* literal; for a name an error or the answer of the name service, a list
\* of addresses drawn from pool.
LookupIP(host, pool, n) ==
    IF ParseIP(host) # NoIP
    THEN {[ips |-> <<ParseIP(host)>>, err |-> ""]}
    ELSE {[ips |-> <<>>, err |-> "lookup " \o host \o ": no such host"]}
         \cup {[ips |-> l, err |-> ""] : l \in SeqsUpTo(pool, n)}

(***************************************************************************)
(* State                                                                   *)
(***************************************************************************)
VARIABLES
    ip4Ranges,   \* the package variable: CIDR text -> block, IPv4
    ip6Ranges,   \* the package variable: CIDR text -> block, IPv6
    call,        \* per goroutine: the locals of its _checker call
    hist,        \* per goroutine: what its current call has done so far
    populates,   \* number of times the body of "if len(ip4Ranges) == 0" was entered
    calls        \* number of calls counted against MaxConcCalls

vars == <<ip4Ranges, ip6Ranges, call, hist, populates, calls>>

NoConn == <<>>

\* A goroutine that is not inside DialContext.
IdleCall == [pc |-> "idle", network |-> "", addr |-> <<>>, host |-> "", port |-> "",
             ips |-> <<>>, i |-> 0, k |-> 0, target |-> "", dialErr |-> "",
             ctxDone |-> FALSE, conn |-> NoConn, err |-> ""]

\* log: the calls made to the resolver, the classifier and the dialler, in
\* order; built: the call ran the table construction; cancelPending: ctx
\* was canceled while the resolver or the dialler was running.
IdleHist == [log |-> <<>>, built |-> FALSE, cancelPending |-> FALSE]

\* The requests of the model: network type and address tokens.
Requests ==
    {[network |-> "tcp", addr |-> a] :
        a \in {<<"example.com", ":", "80">>,
               <<"localhost", ":", "443">>,
               <<"127.0.127.127", ":", "443">>,
               <<"169.254.169.254", ":", "80">>,
               <<"8.8.8.8", ":", "80">>,
               <<"[", "fe80::1", "]", ":", "6379">>,
               <<"example.com">>}}
    \cup {[network |-> "tcp4", addr |-> <<"8.8.8.8", ":", "80">>]}

\* The answers of the name service.
Pool == {Public4, Public4b, Private4, Loopback4, Loopback6, Public6}

\* The smaller sets used where calls overlap.
FewRequests ==
    {[network |-> "tcp", addr |-> a] :
        a \in {<<"example.com", ":", "80">>}}

FewPool == {Public4, Loopback4, LinkLocal6}

Init ==
    /\ ip4Ranges = EmptyMap
    /\ ip6Ranges = EmptyMap
    /\ call = [p \in Procs |-> IdleCall]
    /\ hist = [p \in Procs |-> IdleHist]
    /\ populates = 0
    /\ calls = 0

\* return con, err
Done(c, con, e) == [c EXCEPT !.pc = "done", !.conn = con, !.err = e]

Logged(h, e) == [h EXCEPT !.log = Append(@, e)]

(***************************************************************************)
(* _checker                                                                *)
(***************************************************************************)
\* The transport calls DialContext(ctx, network, addr): lines 126-135, up to
\* the call of net.LookupIP.
Call(p, reqs) ==
    /\ call[p].pc = "idle"
    /\ \E r \in reqs :
          LET sp == SplitHostPort(r.addr)
              c == [call[p] EXCEPT !.network = r.network, !.addr = r.addr]
          IN IF sp.err # ""
             THEN /\ call' = [call EXCEPT ![p] = Done(c, NoConn, sp.err)]
                  /\ hist' = hist
             ELSE /\ call' = [call EXCEPT ![p] = [c EXCEPT !.pc = "resolving",
                                                           !.host = sp.host,
                                                           !.port = sp.port]]
                  /\ hist' = [hist EXCEPT ![p] =
                                 Logged(@, [op |-> "resolve", ctxDone |-> c.ctxDone])]
    /\ UNCHANGED <<ip4Ranges, ip6Ranges, populates>>

\* Exhausted without the test of len(ips).
ExhaustedConnectOnly(c) ==
    Done(c, NoConn, "failed to connect to " \o Concat(c.addr))

\* Exhausted handing back the error of the last connection attempt.
ExhaustedDialError(c) ==
    IF Len(c.ips) < 1
    THEN Done(c, NoConn, "failed to resolve host from " \o Concat(c.addr))
    ELSE Done(c, NoConn, c.dialErr)

\* Exhausted never returning.
ExhaustedHangs(c) == [c EXCEPT !.pc = "hung"]

\* Lines 183-195: the loop is over without a connection.
Exhausted(c) ==
    IF Len(c.ips) < 1
    THEN Done(c, NoConn, "failed to resolve host from " \o Concat(c.addr))
    ELSE Done(c, NoConn, "failed to connect to " \o Concat(c.addr))

\* NextIP giving up after the first candidate.
NextIPStops(c) ==
    IF c.i >= 1 \/ c.i + 1 > Len(c.ips) THEN Exhausted(c)
    ELSE [c EXCEPT !.pc = "check", !.i = c.i + 1]

\* NextIP dialling the same candidate again after a failed attempt.
NextIPRetry(c) ==
    IF c.i >= 1 THEN [c EXCEPT !.pc = "dial"]
    ELSE IF c.i + 1 > Len(c.ips) THEN Exhausted(c)
    ELSE [c EXCEPT !.pc = "check", !.i = c.i + 1]

\* The next iteration of "for _, ip := range ips", or the end of the loop.
NextIP(c) ==
    IF c.i + 1 > Len(c.ips) THEN Exhausted(c)
    ELSE [c EXCEPT !.pc = "check", !.i = c.i + 1]

\* net.LookupIP returns: lines 135-149. It takes no context.
Resolved(p, pool, n) ==
    /\ call[p].pc = "resolving"
    /\ \E r \in LookupIP(call[p].host, pool, n) :
          /\ call' = [call EXCEPT ![p] =
                         IF r.err # "" THEN Done(call[p], NoConn, r.err)
                         ELSE NextIP([call[p] EXCEPT !.ips = r.ips, !.i = 0,
                                                     !.target = ""])]
          /\ hist' = [hist EXCEPT ![p] =
                         Logged(@, [op |-> "resolved", ips |-> r.ips, err |-> r.err])]
    /\ UNCHANGED <<ip4Ranges, ip6Ranges, populates, calls>>

(***************************************************************************)
(* _isLocalIP(ip), called at line 152                                      *)
(***************************************************************************)
\* Line 67: if len(ip4Ranges) == 0
CheckLen(p) ==
    /\ call[p].pc = "check"
    /\ IF Cardinality(DOMAIN ip4Ranges) = 0
       THEN /\ call' = [call EXCEPT ![p].pc = "make4"]
            /\ hist' = [hist EXCEPT ![p].built = TRUE]
            /\ populates' = populates + 1
       ELSE /\ call' = [call EXCEPT ![p].pc = "lookup"]
            /\ hist' = hist
            /\ populates' = populates
    /\ UNCHANGED <<ip4Ranges, ip6Ranges, calls>>

\* Line 70: ip4Ranges = make(map[string]*net.IPNet)
Make4(p) ==
    /\ call[p].pc = "make4"
    /\ ip4Ranges' = EmptyMap
    /\ call' = [call EXCEPT ![p].pc = "make6"]
    /\ UNCHANGED <<ip6Ranges, hist, populates, calls>>

\* Line 71: ip6Ranges = make(map[string]*net.IPNet)
Make6(p) ==
    /\ call[p].pc = "make6"
    /\ ip6Ranges' = EmptyMap
    /\ call' = [call EXCEPT ![p].pc = "fill", ![p].k = 1]
    /\ UNCHANGED <<ip4Ranges, hist, populates, calls>>

\* Lines 78-92: one iteration of "for _, entry := range tmp".
Fill(p) ==
    /\ call[p].pc = "fill"
    /\ LET entry == tmp[call[p].k]
           block == ParseCIDR(entry)
       IN IF EntryHasColon(entry)
          THEN /\ ip6Ranges' = MapPut(ip6Ranges, entry.cidr, block)
               /\ ip4Ranges' = ip4Ranges
          ELSE /\ ip4Ranges' = MapPut(ip4Ranges, entry.cidr, block)
               /\ ip6Ranges' = ip6Ranges
    /\ call' = [call EXCEPT ![p] =
                   IF call[p].k = Len(tmp) THEN [call[p] EXCEPT !.pc = "lookup", !.k = 0]
                   ELSE [call[p] EXCEPT !.k = call[p].k + 1]]
    /\ UNCHANGED <<hist, populates, calls>>

\* strings.Contains(IP.String(), ":"): the dotted form holds no colon, the
\* IPv6 text always does.
IPStringHasColon(ip) == Len(ip) # 0 /\ To4(ip) = NoIP

\* Lines 95-111: the error _isLocalIP returns for ip, "" for nil.
TestIP(ip, m4, m6) ==
    LET testMap == IF IPStringHasColon(ip) THEN m6 ELSE m4
    IN IF \E key \in DOMAIN testMap : Contains(testMap[key], ip)
       THEN "ip address " \o IPString(ip) \o " is denied as local"
       ELSE ""

\* Target without the brackets of the IPv6 form.
TargetUnbracketed(ip, port, old) ==
    IF To16(ip) # NoIP THEN IPString(ip) \o ":" \o port ELSE old

\* Lines 157-163: the connection target for an allowed ip.
Target(ip, port, old) ==
    LET t4 == IF To4(ip) # NoIP THEN IPString(ip) \o ":" \o port ELSE old
    IN IF To16(ip) # NoIP /\ To4(ip) = NoIP
       THEN "[" \o IPString(ip) \o "]:" \o port
       ELSE t4

\* Classified without the test of err.
ClassifiedIgnoringError(c, e) ==
    [c EXCEPT !.pc = "dial", !.target = Target(c.ips[c.i], c.port, c.target)]

\* What _checker does with the result of _isLocalIP: lines 153-163.
Classified(c, e) ==
    IF e # "" THEN Done(c, NoConn, e)
    ELSE [c EXCEPT !.pc = "dial", !.target = Target(c.ips[c.i], c.port, c.target)]

\* Lines 95-111 of _isLocalIP and lines 152-163 of _checker. The map is
\* read as it is at this moment, whoever is writing it.
Lookup(p) ==
    /\ call[p].pc = "lookup"
    /\ LET ip == call[p].ips[call[p].i]
           e == TestIP(ip, ip4Ranges, ip6Ranges)
       IN /\ call' = [call EXCEPT ![p] = Classified(call[p], e)]
          /\ hist' = [hist EXCEPT ![p] =
                         Logged(@, [op |-> "classify", ip |-> ip, allowed |-> e = ""])]
    /\ UNCHANGED <<ip4Ranges, ip6Ranges, populates, calls>>

\* The dialler handed the address the caller gave.
DialAddressByName(c) == Concat(c.addr)

\* The address line 175 hands to the dialler.
DialAddress(c) == c.target

\* Line 175: dialler.DialContext(ctx, network, target) is invoked.
Dial(p) ==
    /\ call[p].pc = "dial"
    /\ call' = [call EXCEPT ![p].pc = "dialing"]
    /\ hist' = [hist EXCEPT ![p] =
                   Logged(@, [op |-> "dial", ip |-> call[p].ips[call[p].i],
                              network |-> call[p].network,
                              target |-> DialAddress(call[p]),
                              ctxDone |-> call[p].ctxDone])]
    /\ UNCHANGED <<ip4Ranges, ip6Ranges, populates, calls>>

\* The error of a failed DialContext(ctx, network, address).
DialError(c) ==
    "dial " \o c.network \o " " \o DialAddress(c) \o ": " \o
    (IF c.ctxDone THEN "operation was canceled" ELSE "connect: connection refused")

\* The loop going on after a successful attempt, the connection dropped.
ConnectedContinues(c) == NextIP(c)

\* Lines 176-180: the attempt succeeded, "return con, err".
Connected(c) == Done(c, [network |-> c.network, raddr |-> DialAddress(c)], "")

\* Lines 175-181: DialContext returns "con, err". With the context canceled
\* it returns an error; otherwise the connection attempt succeeds or fails.
\* err is local to the loop body and is dropped when it is not nil.
Dialed(p) ==
    /\ call[p].pc = "dialing"
    /\ \E ok \in (IF call[p].ctxDone THEN {FALSE} ELSE BOOLEAN) :
          LET c == call[p]
          IN /\ call' = [call EXCEPT ![p] =
                            IF ok THEN Connected(c)
                            ELSE NextIP([c EXCEPT !.dialErr = DialError(c)])]
             /\ hist' = [hist EXCEPT ![p] =
                            Logged(@, [op |-> "dialed", ip |-> c.ips[c.i], ok |-> ok])]
    /\ UNCHANGED <<ip4Ranges, ip6Ranges, populates, calls>>

\* The caller cancels ctx while the call is running.
Cancel(p) ==
    /\ call[p].pc \notin {"idle", "done"}
    /\ ~call[p].ctxDone
    /\ call' = [call EXCEPT ![p].ctxDone = TRUE]
    /\ hist' = [hist EXCEPT ![p].cancelPending = call[p].pc \in {"resolving", "dialing"}]
    /\ UNCHANGED <<ip4Ranges, ip6Ranges, populates, calls>>

\* The result is handed to the transport; the goroutine is free again.
Return(p) ==
    /\ call[p].pc = "done"
    /\ call' = [call EXCEPT ![p] = IdleCall]
    /\ hist' = [hist EXCEPT ![p] = IdleHist]
    /\ UNCHANGED <<ip4Ranges, ip6Ranges, populates, calls>>

\* One request at a time: no call starts while another is running.
NoOtherCall(p) == \A q \in Procs \ {p} : call[q].pc = "idle"

\* The goroutines call the transport one after the other.
Next ==
    \E p \in Procs :
        \/ NoOtherCall(p) /\ calls' = calls /\ Call(p, Requests)
        \/ Resolved(p, Pool, MaxCands)
        \/ CheckLen(p)
        \/ Make4(p)
        \/ Make6(p)
        \/ Fill(p)
        \/ Lookup(p)
        \/ Dial(p)
        \/ Dialed(p)
        \/ Cancel(p)
        \/ Return(p)

Spec == Init /\ [][Next]_vars

\* The goroutines call the transport concurrently: MaxConcCalls calls in
\* all, none of them canceled.
ConcNext ==
    \E p \in Procs :
        \/ calls < MaxConcCalls /\ calls' = calls + 1 /\ Call(p, FewRequests)
        \/ Resolved(p, FewPool, ConcCands)
        \/ CheckLen(p)
        \/ Make4(p)
        \/ Make6(p)
        \/ Fill(p)
        \/ Lookup(p)
        \/ Dial(p)
        \/ Dialed(p)
        \/ Return(p)

ConcSpec == Init /\ [][ConcNext]_vars

\* The requests of the runs to completion: a well-formed and a malformed
\* address.
FairRequests ==
    FewRequests \cup {[network |-> "tcp", addr |-> <<"example.com">>]}

\* The answers of the name service in the runs to completion: an allowed
\* and a denied address.
FairPool == {Public4, LinkLocal6}

\* One step of the call goroutine p is running: the resolver returns, a
\* statement of _isLocalIP or _checker runs, the dialler returns.
Step(p) ==
    \/ Resolved(p, FairPool, MaxCands)
    \/ CheckLen(p)
    \/ Make4(p)
    \/ Make6(p)
    \/ Fill(p)
    \/ Lookup(p)
    \/ Dial(p)
    \/ Dialed(p)

FairNext ==
    \E p \in Procs :
        \/ NoOtherCall(p) /\ calls' = calls /\ Call(p, FairRequests)
        \/ Step(p)
        \/ Cancel(p)
        \/ Return(p)

\* The calls one after the other; a goroutine that can take a step takes
\* one, and the resolver and the dialler return.
FairSpec == Init /\ [][FairNext]_vars /\ \A p \in Procs : WF_vars(Step(p))

(***************************************************************************)
(* Vocabulary of the properties                                            *)
(***************************************************************************)
\* The calls that have returned.
Returned == {p \in Procs : call[p].pc = "done"}

\* The events of one kind in the log of p's call, as positions.
Events(p, op) == {n \in 1..Len(hist[p].log) : hist[p].log[n].op = op}

\* An address in the form of its family: 4 bytes for IPv4, 16 for IPv6.
Canonical(ip) ==
    IF Len(ip) = 16 /\ \A n \in 1..10 : ip[n] = 0 /\ ip[11] = 255 /\ ip[12] = 255
    THEN <<ip[13], ip[14], ip[15], ip[16]>>
    ELSE ip

\* The text of an address of the model, as a reader writes it.
Literal(ip) ==
    CASE Canonical(ip) = <<127, 0, 0, 1>> -> "127.0.0.1"
      [] Canonical(ip) = <<127, 0, 127, 127>> -> "127.0.127.127"
      [] Canonical(ip) = <<169, 254, 169, 254>> -> "169.254.169.254"
      [] Canonical(ip) = <<10, 1, 2, 3>> -> "10.1.2.3"
      [] Canonical(ip) = <<8, 8, 8, 8>> -> "8.8.8.8"
      [] Canonical(ip) = <<93, 184, 216, 34>> -> "93.184.216.34"
      [] ip = Loopback6 -> "::1"
      [] ip = LinkLocal6 -> "fe80::1"
      [] ip = Public6 -> "2606:2800:220:1:248:1893:25c8:1946"

IsV6(ip) == Len(Canonical(ip)) = 16

\* The host is written as an IP address, not as a name.
IsIPLiteral(host) == \E ip \in KnownIPs : Literal(ip) = host

\* The dial target of a candidate: ip:port, [ip]:port for IPv6.
HostPort(ip, port) ==
    IF IsV6(ip) THEN "[" \o Literal(ip) \o "]:" \o port ELSE Literal(ip) \o ":" \o port

\* The port of a well-formed address of the model: its last token.
PortOf(addr) == addr[Len(addr)]

\* The n-th bit of an address, most significant first.
Bit(a, n) == (a[((n - 1) \div 8) + 1] \div Pow2(7 - ((n - 1) % 8))) % 2

\* ip lies in the range a CIDR literal denotes: same family, same prefix.
InRange(entry, ip) ==
    /\ Len(Canonical(ip)) = Len(entry.addr)
    /\ \A n \in 1..entry.ones : Bit(Canonical(ip), n) = Bit(entry.addr, n)

\* ip lies in some range of the denied set.
InDeniedSet(ip) == \E j \in 1..Len(tmp) : InRange(tmp[j], ip)

DeniedError(ip) == "ip address " \o Literal(ip) \o " is denied as local"

IsDeniedError(e) == \E ip \in KnownIPs : e = DeniedError(ip)

ConnectError(addr) == "failed to connect to " \o Concat(addr)

\* The tables of the configured ranges.
FullTable(list) ==
    [key \in {list[j].cidr : j \in 1..Len(list)} |->
        ParseCIDR(CHOOSE e \in {list[j] : j \in 1..Len(list)} : e.cidr = key)]

FullTable4 == FullTable(localIP4)

FullTable6 == FullTable(localIP6)

\* The table holds exactly the configured ranges.
TableBuilt == ip4Ranges = FullTable4 /\ ip6Ranges = FullTable6

(***************************************************************************)
(* Properties                                                              *)
(***************************************************************************)
\* C1: a call whose resolved candidates include an IP of a denied range, at
\* any position, returns a denial error and no connection.
C1_FailClosed ==
    \A p \in Returned :
        (\E j \in 1..Len(call[p].ips) : InDeniedSet(call[p].ips[j]))
            => call[p].conn = NoConn /\ IsDeniedError(call[p].err)

\* C2: within a call no classification follows a connection attempt, and a
\* call that ends in a denial error has made no connection attempt.
C2_ClassifyBeforeDial ==
    \A p \in Procs :
        /\ \A d \in Events(p, "dial") : \A c \in Events(p, "classify") : c < d
        /\ (p \in Returned /\ IsDeniedError(call[p].err)) => Events(p, "dial") = {}

\* C3: every address handed to the dialler is the target of a candidate the
\* classifier allowed earlier in the same call.
C3_OnlyAllowedDialed ==
    \A p \in Procs : \A d \in Events(p, "dial") :
        \E c \in Events(p, "classify") :
            /\ c < d
            /\ hist[p].log[c].allowed
            /\ hist[p].log[d].target = HostPort(hist[p].log[c].ip, PortOf(call[p].addr))

C3_Witness ==
    \E p \in Returned :
        /\ call[p].conn # NoConn
        /\ Cardinality(Events(p, "dial")) = 2
        /\ call[p].ips = <<Public4, Public6>>

\* C4: a returned connection was opened to a resolved candidate's IP literal
\* with the port of the original address, and the dialler is never invoked
\* with the original host name: every target is such a literal, and differs
\* from the address given when that names a host.
C4_DialsResolvedIP ==
    \A p \in Procs :
        /\ (p \in Returned /\ call[p].conn # NoConn)
              => \E j \in 1..Len(call[p].ips) :
                    call[p].conn.raddr = HostPort(call[p].ips[j], PortOf(call[p].addr))
        /\ \A d \in Events(p, "dial") :
              /\ \E j \in 1..Len(call[p].ips) :
                    hist[p].log[d].target = HostPort(call[p].ips[j], PortOf(call[p].addr))
              /\ ~IsIPLiteral(call[p].host)
                    => /\ hist[p].log[d].target # Concat(call[p].addr)
                       /\ hist[p].log[d].target
                             # call[p].host \o ":" \o PortOf(call[p].addr)

C4_Witness ==
    \E p \in Returned :
        /\ call[p].addr = <<"example.com", ":", "80">>
        /\ call[p].conn # NoConn
        /\ call[p].conn.raddr = "93.184.216.34:80"

\* C5: the table construction inside _isLocalIP is entered at most once.
C5_BuiltOnce == populates <= 1

\* C6: the classifier denies exactly the IPs of the denied set, in the call
\* that builds the table and in every later call.
C6_ClassifierMatchesRanges ==
    \A p \in Procs : \A c \in Events(p, "classify") :
        hist[p].log[c].allowed <=> ~InDeniedSet(hist[p].log[c].ip)

\* C7: a call whose host resolves only to local addresses returns no
\* connection and the error "ip address <ip> is denied as local", <ip>
\* the literal of the denied candidate.
C7_LocalDenied ==
    \A p \in Returned :
        (/\ call[p].ips # <<>>
         /\ \A j \in 1..Len(call[p].ips) : InDeniedSet(call[p].ips[j]))
            => /\ call[p].conn = NoConn
               /\ call[p].err = DeniedError(call[p].ips[1])

\* C8: once the table holds the configured ranges, it holds them forever.
C8_TableFixed == [][TableBuilt => TableBuilt']_vars

\* A cancellation error of the dialler, as it would reach the caller.
IsCancelError(e) ==
    \E a \in {c.target : c \in {call[q] : q \in Procs}}, n \in {"tcp", "tcp4", "tcp6"} :
        e = "dial " \o n \o " " \o a \o ": operation was canceled"

\* C9: when ctx is canceled while the resolver or the dialler is running,
\* the call starts no further resolution or connection attempt and returns
\* a cancellation error.
C9_CancelStops ==
    \A p \in Procs :
        hist[p].cancelPending
            => /\ \A n \in Events(p, "dial") \cup Events(p, "resolve") :
                     ~hist[p].log[n].ctxDone
               /\ p \in Returned => IsCancelError(call[p].err)

\* C10: when the resolver fails or answers with no address, the call returns
\* no connection and a resolution error, which is not the connect error, and
\* the dialler is not invoked.
C10_ResolutionError ==
    \A p \in Returned : \A r \in Events(p, "resolved") :
        LET e == hist[p].log[r]
        IN (e.err # "" \/ e.ips = <<>>)
              => /\ call[p].conn = NoConn
                 /\ call[p].err = (IF e.err # "" THEN e.err
                                   ELSE "failed to resolve host from "
                                        \o Concat(call[p].addr))
                 /\ call[p].err # ConnectError(call[p].addr)
                 /\ Events(p, "dial") = {}

C10_Witness ==
    \E p \in Returned :
        /\ \E r \in Events(p, "resolved") :
              hist[p].log[r].err = "" /\ hist[p].log[r].ips = <<>>
        /\ call[p].err = "failed to resolve host from example.com:80"

\* The resolver's own error is returned.
C10_WitnessLookupFails ==
    \E p \in Returned : call[p].err = "lookup localhost: no such host"

\* The outcomes of the connection attempts of p's call, in order.
Attempts(p) == SelectSeq(hist[p].log, LAMBDA e : e.op = "dialed")

\* Every candidate of p's call lies outside the denied set.
AllAllowed(p) ==
    /\ call[p].ips # <<>>
    /\ \A j \in 1..Len(call[p].ips) : ~InDeniedSet(call[p].ips[j])

\* C11: a call whose candidates are all allowed and whose connection
\* attempts, one to each candidate, all failed returns no connection and the
\* error "failed to connect to <addr>", <addr> the address the caller gave.
C11_ConnectError ==
    \A p \in Returned :
        (/\ AllAllowed(p)
         /\ Len(Attempts(p)) = Len(call[p].ips)
         /\ \A n \in 1..Len(Attempts(p)) : ~Attempts(p)[n].ok)
            => /\ call[p].conn = NoConn
               /\ call[p].err = ConnectError(call[p].addr)

C11_Witness ==
    \E p \in Returned :
        /\ call[p].ips = <<Public4, Public6>>
        /\ Len(Attempts(p)) = 2
        /\ \A n \in 1..2 : ~Attempts(p)[n].ok
        /\ ~call[p].ctxDone
        /\ call[p].err = "failed to connect to example.com:80"

\* The address of p's call is a denied one: it resolved, and to addresses
\* of the denied set only.
DeniedURL(p) ==
    /\ call[p].ips # <<>>
    /\ \A j \in 1..Len(call[p].ips) : InDeniedSet(call[p].ips[j])

\* C12: every call to a denied address, the one that builds the table and
\* every other one, returns a denial error and no connection, whatever the
\* calls to the same address made before it or beside it.
C12_DenialIdempotent ==
    \A p \in Procs :
        (/\ p \in Returned
         /\ DeniedURL(p)
         /\ \A q \in Procs :
               call[q].ips # <<>> => call[q].addr = call[p].addr /\ call[q].ips = call[p].ips)
            => /\ call[p].conn = NoConn
               /\ \E j \in 1..Len(call[p].ips) : call[p].err = DeniedError(call[p].ips[j])

\* The invocations of the dialler in p's call, in order.
Dials(p) == SelectSeq(hist[p].log, LAMBDA e : e.op = "dial")

\* C13: in a call whose candidates are all allowed, the n-th connection
\* attempt goes to the n-th candidate of the resolver's answer; an attempt
\* follows only a failed one, and the call does not give up while a
\* candidate is left; the connection returned is the one to the first
\* candidate whose attempt succeeded.
C13_FallbackOrder ==
    \A p \in Procs :
        AllAllowed(p) =>
            LET D == Dials(p)
                A == Attempts(p)
            IN /\ Len(D) <= Len(call[p].ips)
               /\ \A n \in 1..Len(D) : D[n].ip = call[p].ips[n]
               /\ \A n \in 1..Len(A) : A[n].ip = call[p].ips[n]
               /\ Len(A) <= Len(D) /\ Len(D) <= Len(A) + 1
               /\ \A n \in 1..Len(A) : A[n].ok => n = Len(D)
               /\ p \in Returned =>
                     IF call[p].conn = NoConn
                     THEN /\ Len(A) = Len(call[p].ips)
                          /\ \A n \in 1..Len(A) : ~A[n].ok
                     ELSE /\ Len(A) >= 1
                          /\ A[Len(A)].ok
                          /\ \A n \in 1..(Len(A) - 1) : ~A[n].ok
                          /\ call[p].conn.raddr
                                = HostPort(call[p].ips[Len(A)], PortOf(call[p].addr))

C13_Witness ==
    \E p \in Returned :
        /\ call[p].ips = <<Public4b, Public4>>
        /\ Len(Attempts(p)) = 2
        /\ ~Attempts(p)[1].ok
        /\ Attempts(p)[2].ok
        /\ call[p].conn # NoConn
        /\ call[p].conn.raddr = "8.8.8.8:80"

\* C14: within a call the dialler is invoked at most once for each
\* candidate: the n-th invocation is for the n-th candidate and there are
\* never more invocations than candidates; the resolver is called at most
\* once, so a call that failed is not started again.
C14_NoRetry ==
    \A p \in Procs :
        /\ Len(Dials(p)) <= Len(call[p].ips)
        /\ \A n \in 1..Len(Dials(p)) : Dials(p)[n].ip = call[p].ips[n]
        /\ Cardinality(Events(p, "resolve")) <= 1
        /\ Cardinality(Events(p, "resolved")) <= 1
        /\ p \in Returned /\ call[p].conn = NoConn
              => Len(Attempts(p)) = Len(Dials(p))

C14_Witness ==
    \E p \in Returned :
        /\ call[p].ips = <<Public4, Public4>>
        /\ Len(Dials(p)) = 2
        /\ call[p].err = "failed to connect to example.com:80"

\* The step invokes the dialler in p's call.
DialInvoked(p) ==
    /\ Len(hist'[p].log) = Len(hist[p].log) + 1
    /\ hist'[p].log[Len(hist'[p].log)].op = "dial"

\* C15: every invocation of the dialler is given the network type the
\* caller gave, the caller's context in the state it is in at that moment,
\* and the target ip:port for an IPv4 candidate, [ip]:port for an IPv6
\* candidate, the port being the port of the caller's address.
C15_DialArguments ==
    [][\A p \in Procs :
          DialInvoked(p) =>
              LET e == hist'[p].log[Len(hist'[p].log)]
                  ip == call[p].ips[call[p].i]
                  port == PortOf(call[p].addr)
              IN /\ e.network = call[p].network
                 /\ e.ctxDone = call[p].ctxDone
                 /\ e.ip = ip
                 /\ e.target = (IF IsV6(ip) THEN "[" \o Literal(ip) \o "]:" \o port
                                ELSE Literal(ip) \o ":" \o port)
                 /\ call'[p].network = call[p].network
                 /\ call'[p].ctxDone = call[p].ctxDone]_vars

\* An IPv6 candidate is dialled with a canceled context.
C15_Witness ==
    \E p \in Procs : \E n \in 1..Len(Dials(p)) :
        /\ Dials(p)[n].target = "[2606:2800:220:1:248:1893:25c8:1946]:80"
        /\ Dials(p)[n].network = "tcp"
        /\ Dials(p)[n].ctxDone

\* An IPv4 candidate is dialled with the network type tcp4.
C15_WitnessTcp4 ==
    \E p \in Procs : \E n \in 1..Len(Dials(p)) :
        /\ Dials(p)[n].target = "8.8.8.8:80"
        /\ Dials(p)[n].network = "tcp4"
        /\ ~Dials(p)[n].ctxDone

\* The terminal outcomes of a call.
IsConnected(c) == c.conn # NoConn /\ c.err = ""

IsDenied(c) == c.conn = NoConn /\ IsDeniedError(c.err)

IsResolutionFailed(c) ==
    /\ c.conn = NoConn
    /\ \/ c.err = "failed to resolve host from " \o Concat(c.addr)
       \/ c.err = "lookup " \o c.host \o ": no such host"

IsConnectFailed(c) == c.conn = NoConn /\ c.err = ConnectError(c.addr)

IsAddressFailed(c) == c.conn = NoConn /\ c.err = SplitHostPort(c.addr).err /\ c.err # ""

\* The number of terminal outcomes c shows.
Outcomes(c) ==
    Cardinality({k \in 1..5 :
        \/ k = 1 /\ IsConnected(c)
        \/ k = 2 /\ IsDenied(c)
        \/ k = 3 /\ IsResolutionFailed(c)
        \/ k = 4 /\ IsConnectFailed(c)
        \/ k = 5 /\ IsAddressFailed(c)})

\* The calls that were started and have not returned.
Running == {p \in Procs : call[p].pc \notin {"idle", "done"}}

\* C16: every call that was started returns (the calls run one at a time,
\* so the running call is the one that has returned when none is running);
\* a call that has returned shows exactly one of the outcomes connected,
\* denied, resolution failed, connect failed, address malformed; and after
\* it has returned it calls the resolver, the classifier and the dialler no
\* more.
C16_Terminates ==
    /\ (Running # {}) ~> (Running = {})
    /\ [](\A p \in Returned : Outcomes(call[p]) = 1)
    /\ [][\A p \in Returned :
             \/ call'[p] = call[p] /\ hist'[p] = hist[p]
             \/ call'[p] = IdleCall /\ hist'[p] = IdleHist]_vars

\* A call has returned after a denial that followed a failed attempt.
C16_Witness ==
    \E p \in Returned :
        /\ IsDenied(call[p])
        /\ Len(Attempts(p)) = 1
        /\ call[p].ips = <<Public4, LinkLocal6>>

\* C17: however the calls of the goroutines interleave, no classification
\* allows an address of the denied set, the dialler is never invoked for
\* such an address, and no classification reads a table that lacks a
\* configured range.
C17_ConcurrentClassification ==
    /\ \A p \in Procs :
          /\ \A c \in Events(p, "classify") :
                InDeniedSet(hist[p].log[c].ip) => ~hist[p].log[c].allowed
          /\ \A d \in Events(p, "dial") : ~InDeniedSet(hist[p].log[d].ip)
    /\ \A p \in Procs : call[p].pc = "lookup" => TableBuilt

\* The positions in the log of p's call of the attempts that opened a
\* connection.
Opened(p) == {n \in Events(p, "dialed") : hist[p].log[n].ok}

\* C18: a call opens at most one connection; the attempt that opened it is
\* the last thing the call does, and the call returns that connection and
\* no error; a call that returns an error has opened no connection.
C18_OneConnection ==
    \A p \in Procs :
        /\ Cardinality(Opened(p)) <= 1
        /\ \A n \in Opened(p) :
              /\ n = Len(hist[p].log)
              /\ p \in Returned
              /\ call[p].err = ""
              /\ call[p].conn = [network |-> call[p].network,
                                 raddr |-> hist[p].log[n - 1].target]
              /\ hist[p].log[n - 1].op = "dial"
        /\ (p \in Returned /\ call[p].err # "")
              => Opened(p) = {} /\ call[p].conn = NoConn
        /\ (p \in Returned /\ call[p].conn # NoConn) => Opened(p) # {}

C18_Witness ==
    \E p \in Returned :
        /\ call[p].ips = <<Public4, Private4>>
        /\ Opened(p) # {}
        /\ call[p].conn = [network |-> "tcp", raddr |-> "8.8.8.8:80"]
        /\ Events(p, "classify") = {3}

====
